---- MODULE Spec2Model ----
(***************************************************************************)
(* Model of the text-to-path layout pipeline of src/src/text.rs:           *)
(* Text::to_path -> Text::to_path_with_font -> text_to_raw.                *)
(*                                                                         *)
(* One layout call is a run of the state machine: the font lookup, the     *)
(* parsing of the face, the bidi resolution, the loops over paragraphs,    *)
(* visual runs and shaped glyphs, the finishing of the composed path, the  *)
(* origin normalisation, the scale-to-fit, the alignment and the           *)
(* serialisation.                                                          *)
(*                                                                         *)
(* f32 values are modelled as exact rationals <<n, d>> (d > 0, lowest      *)
(* terms): rounding is left out, every other arithmetic step is kept.      *)
(* The crates the code calls (unicode_bidi, rustybuzz, ttf_parser,         *)
(* tiny_skia_path, fontdb) are modelled by what the code relies on, over a *)
(* small alphabet and one small font.                                      *)
(***************************************************************************)
EXTENDS Integers, Sequences, FiniteSets, TLC

\* ------------------------------------------------------------------ bounds

\* Longest text of the composition runs (cursor, paragraphs, runs, glyphs).
MaxLen == 3
\* Longest text of the runs that vary limit, alignment and anchor.
MaxBoundsLen == 2

\* ------------------------------------------------------- f32 as rationals

Abs(i) == IF i < 0 THEN -i ELSE i

RECURSIVE GCD(_, _)
GCD(a, b) == IF b = 0 THEN a ELSE GCD(b, a % b)

\* <<n, d>> in lowest terms with d > 0.
Norm(n, d) ==
    LET s == IF d < 0 THEN -1 ELSE 1
        g == GCD(Abs(n), Abs(d))
    IN  <<(s * n) \div g, (s * d) \div g>>

R(i) == <<i, 1>>
RAdd(a, b) == Norm(a[1] * b[2] + b[1] * a[2], a[2] * b[2])
RNeg(a) == <<-a[1], a[2]>>
RSub(a, b) == RAdd(a, RNeg(b))
RMul(a, b) == Norm(a[1] * b[1], a[2] * b[2])
RDiv(a, b) == Norm(a[1] * b[2], a[2] * b[1])
RLt(a, b) == a[1] * b[2] < b[1] * a[2]
RLe(a, b) == a[1] * b[2] <= b[1] * a[2]
RMin(a, b) == IF RLt(b, a) THEN b ELSE a
RMax(a, b) == IF RLt(a, b) THEN b ELSE a
RAbs(a) == <<Abs(a[1]), a[2]>>
RHalf(a) == RDiv(a, R(2))

\* Option<T>
None == [some |-> FALSE]
Some(v) == [some |-> TRUE, v |-> v]

\* ------------------------------------------------------------ tiny_skia_path

\* A path is a sequence of segments [verb, pts]; pts holds the segment's
\* points (for QuadTo: the control point, then the end point).
MoveTo(x, y) == [verb |-> "M", pts |-> << <<x, y>> >>]
LineTo(x, y) == [verb |-> "L", pts |-> << <<x, y>> >>]
QuadTo(x1, y1, x, y) == [verb |-> "Q", pts |-> << <<x1, y1>>, <<x, y>> >>]
Close == [verb |-> "Z", pts |-> << >>]

\* Transform: sx, sy scale then tx, ty translation (no skew is ever used).
Identity == [sx |-> R(1), sy |-> R(1), tx |-> R(0), ty |-> R(0)]
\* pre_scale: the scale is applied to the point before the rest of ts.
PreScale(ts, sx, sy) == [ts EXCEPT !.sx = RMul(ts.sx, sx), !.sy = RMul(ts.sy, sy)]
\* post_translate: the translation is applied after the rest of ts.
PostTranslate(ts, tx, ty) == [ts EXCEPT !.tx = RAdd(ts.tx, tx), !.ty = RAdd(ts.ty, ty)]
\* pre_translate: the translation is applied before the rest of ts.
PreTranslate(ts, tx, ty) ==
    [ts EXCEPT !.tx = RAdd(ts.tx, RMul(ts.sx, tx)), !.ty = RAdd(ts.ty, RMul(ts.sy, ty))]

MapPoint(ts, p) == <<RAdd(RMul(ts.sx, p[1]), ts.tx), RAdd(RMul(ts.sy, p[2]), ts.ty)>>

\* Path::transform: every point of every segment is mapped.
TransformPath(path, ts) ==
    [i \in 1..Len(path) |->
        [verb |-> path[i].verb,
         pts |-> [j \in 1..Len(path[i].pts) |-> MapPoint(ts, path[i].pts[j])]]]

\* All points of a path (control points included), as a set.
PathPoints(path) ==
    UNION {{path[i].pts[j] : j \in 1..Len(path[i].pts)} : i \in 1..Len(path)}

\* The least and the greatest of a set of values (0 for no value at all).
RECURSIVE RMinOf(_)
RMinOf(S) ==
    IF S = {} THEN R(0)
    ELSE LET a == CHOOSE x \in S : TRUE
         IN  IF S = {a} THEN a ELSE RMin(a, RMinOf(S \ {a}))
RECURSIVE RMaxOf(_)
RMaxOf(S) ==
    IF S = {} THEN R(0)
    ELSE LET a == CHOOSE x \in S : TRUE
         IN  IF S = {a} THEN a ELSE RMax(a, RMaxOf(S \ {a}))

RectOf(xs, ys) ==
    [left |-> RMinOf(xs), right |-> RMaxOf(xs), top |-> RMinOf(ys), bottom |-> RMaxOf(ys)]

\* Path::bounds: the box of the path's points, control points included.
Bounds(path) ==
    LET P == PathPoints(path)
    IN  RectOf({p[1] : p \in P}, {p[2] : p \in P})

\* The extreme values one coordinate takes on a quadratic from a over control
\* c to b: the end points, and the turning point when it lies inside (0, 1).
QuadExtremas(a, c, b) ==
    LET den == RAdd(RSub(a, RMul(R(2), c)), b)
        num == RSub(a, c)
        inside == den # R(0) /\ RLt(R(0), RDiv(num, den)) /\ RLt(RDiv(num, den), R(1))
    IN  {a, b} \cup (IF inside THEN {RSub(a, RDiv(RMul(num, num), den))} ELSE {})

\* The point a segment starts from: the end of the previous drawing segment.
RECURSIVE LastPoint(_, _)
LastPoint(path, i) ==
    IF i = 0 THEN <<R(0), R(0)>>
    ELSE IF path[i].verb = "Z" THEN LastPoint(path, i - 1)
    ELSE path[i].pts[Len(path[i].pts)]

\* The coordinate values (k = 1: x, k = 2: y) that bound segment i tightly.
SegmentExtremas(path, i, k) ==
    LET s == path[i]
    IN  CASE s.verb = "Q" -> QuadExtremas(LastPoint(path, i - 1)[k], s.pts[1][k], s.pts[2][k])
          [] s.verb = "Z" -> {}
          [] OTHER -> {s.pts[1][k]}

\* Path::compute_tight_bounds: the box of the curve itself.
ComputeTightBounds(path) ==
    LET xs == UNION {SegmentExtremas(path, i, 1) : i \in 1..Len(path)}
        ys == UNION {SegmentExtremas(path, i, 2) : i \in 1..Len(path)}
    IN  IF path = << >> THEN None ELSE Some(RectOf(xs, ys))

\* PathBuilder::finish: no path from an empty builder or a lone MoveTo.
PathBuilderFinish(segs) == IF Len(segs) <= 1 THEN None ELSE Some(segs)

\* ------------------------------------------------------------------ the font

\* The alphabet of the model:
\*   "a"  a left-to-right letter with an outline of straight lines
\*   "r"  a right-to-left letter whose outline has a quadratic curve with its
\*        control point outside the curve's own extent
\*   "s"  the space character (no outline)
\*   "n"  the line feed (paragraph separator)
\*   "m"  the left-to-right mark: a strong left-to-right character that is
\*        default-ignorable, which the shaper renders as the space glyph with
\*        a zero advance
\*   "x"  a left-to-right letter whose glyph reports an outline that the path
\*        builder cannot finish (a lone MoveTo)
Chars == {"a", "r", "s", "n", "m", "x"}
BoundsChars == {"a", "r", "n"}

\* The font database: the family resolves to a face that parses, to bytes
\* that do not parse, or to nothing.
FontStates == {"ok", "corrupt", "missing"}

\* rustybuzz::Face: units_per_em, glyph_index (cmap), glyph_hor_advance
\* (hmtx) and outline_glyph (the outline in design units and its box).
Face ==
    [units_per_em |-> 100,
     cmap |-> [c \in Chars |->
                 CASE c = "a" -> Some("gA")
                   [] c = "r" -> Some("gR")
                   [] c = "s" -> Some("gSpace")
                   [] c = "m" -> Some("gSpace")
                   [] c = "x" -> Some("gX")
                   [] OTHER -> None],
     hor_advance |-> [g \in {"gA", "gR", "gSpace", "gX", "notdef"} |->
                 CASE g = "gA" -> 110
                   [] g = "gR" -> 50
                   [] g = "gSpace" -> 30
                   [] g = "gX" -> 20
                   [] OTHER -> 0],
     outline |-> [g \in {"gA", "gR", "gSpace", "gX", "notdef"} |->
                 CASE g = "gA" ->
                        Some([segs |-> <<MoveTo(R(0), R(0)), LineTo(R(100), R(0)),
                                         LineTo(R(50), R(40)), Close>>,
                              y_min |-> 0, y_max |-> 40])
                   [] g = "gR" ->
                        Some([segs |-> <<MoveTo(R(0), R(0)), LineTo(R(40), R(0)),
                                         LineTo(R(40), R(30)),
                                         QuadTo(R(-20), R(15), R(0), R(0)), Close>>,
                              y_min |-> 0, y_max |-> 30])
                   [] g = "gX" ->
                        Some([segs |-> <<MoveTo(R(0), R(0))>>,
                              y_min |-> 0, y_max |-> 10])
                   [] OTHER -> None]]

\* face.glyph_index(c).unwrap_or_default(): glyph 0 when the cmap has none.
GlyphIndexOrDefault(c) == IF Face.cmap[c].some THEN Face.cmap[c].v ELSE "notdef"

\* Rect::height of the glyph's box, in design units.
RectHeight(rect) == rect.y_max - rect.y_min

\* ------------------------------------------------------------- unicode_bidi

LTR_LEVEL == 0
RTL_LEVEL == 1

BidiClass(c) ==
    CASE c = "r" -> "R"
      [] c = "s" -> "WS"
      [] c = "n" -> "B"
      [] OTHER -> "L"

IsStrong(c) == BidiClass(c) \in {"L", "R"}
\* char::is_whitespace, as str::trim_end uses it.
IsWhitespace(c) == c \in {"s", "n"}

\* Level::is_ltr, Level::is_rtl
IsLtr(level) == level % 2 = 0
IsRtl(level) == level % 2 = 1

\* A range lo..hi holds the characters lo, ..., hi (1-based, both included);
\* it is empty when hi = lo - 1.
Range(lo, hi) == [lo |-> lo, hi |-> hi]
Slice(text, rg) == [i \in 1..(rg.hi - rg.lo + 1) |-> text[rg.lo + i - 1]]

\* The paragraphs: each ends with its separator, the last one with the text.
RECURSIVE ParaRanges(_, _)
ParaRanges(text, lo) ==
    IF lo > Len(text) THEN << >>
    ELSE LET seps == {i \in lo..Len(text) : BidiClass(text[i]) = "B"}
             hi == IF seps = {} THEN Len(text)
                   ELSE CHOOSE i \in seps : \A j \in seps : i <= j
         IN  <<Range(lo, hi)>> \o ParaRanges(text, hi + 1)

\* P2, P3: the level of the first strong character, LTR when there is none.
AutoParaLevel(text, rg) ==
    LET strong == {i \in rg.lo..rg.hi : IsStrong(text[i])}
        first == CHOOSE i \in strong : \A j \in strong : i <= j
    IN  IF strong = {} THEN LTR_LEVEL
        ELSE IF BidiClass(text[first]) = "R" THEN RTL_LEVEL ELSE LTR_LEVEL

\* N1, N2: a neutral between two strong characters of one direction (the
\* paragraph's direction standing at both ends) takes it, any other neutral
\* takes the paragraph's direction.
ResolvedClass(text, rg, plevel, i) ==
    LET pdir == IF IsRtl(plevel) THEN "R" ELSE "L"
        before == {j \in rg.lo..(i - 1) : IsStrong(text[j])}
        after == {j \in (i + 1)..rg.hi : IsStrong(text[j])}
        prev == IF before = {} THEN pdir
                ELSE BidiClass(text[CHOOSE j \in before : \A k \in before : k <= j])
        next == IF after = {} THEN pdir
                ELSE BidiClass(text[CHOOSE j \in after : \A k \in after : j <= k])
    IN  IF IsStrong(text[i]) THEN BidiClass(text[i])
        ELSE IF prev = next THEN prev ELSE pdir

\* I1, I2: the level of a character from its resolved class.
ResolvedLevel(text, rg, plevel, i) ==
    LET cls == ResolvedClass(text, rg, plevel, i)
    IN  IF IsLtr(plevel) THEN (IF cls = "R" THEN plevel + 1 ELSE plevel)
        ELSE (IF cls = "L" THEN plevel + 1 ELSE plevel)

\* BidiInfo::new(text, default_para_level)
BidiInfoNew(text, default) ==
    LET rgs == ParaRanges(text, 1)
        paras == [k \in 1..Len(rgs) |->
                    [range |-> rgs[k],
                     level |-> IF default.some THEN default.v
                               ELSE AutoParaLevel(text, rgs[k])]]
        paraOf(i) == CHOOSE k \in 1..Len(rgs) : rgs[k].lo <= i /\ i <= rgs[k].hi
    IN  [paragraphs |-> paras,
         levels |-> [i \in 1..Len(text) |->
                       ResolvedLevel(text, paras[paraOf(i)].range, paras[paraOf(i)].level, i)]]

\* BidiInfo::reordered_levels: L1 puts the line's trailing whitespace and
\* separators at the paragraph's level.
ReorderedLevels(text, bidi, para, line) ==
    [i \in 1..Len(text) |->
        IF i \in line.lo..line.hi /\ \A j \in i..line.hi : BidiClass(text[j]) \in {"WS", "B"}
        THEN para.level ELSE bidi.levels[i]]

\* The level runs of lo..hi in logical order.
RECURSIVE RunsFrom(_, _, _)
RunsFrom(levels, lo, hi) ==
    IF lo > hi THEN << >>
    ELSE LET same == {j \in lo..hi : \A k \in lo..j : levels[k] = levels[lo]}
             e == CHOOSE j \in same : \A k \in same : k <= j
         IN  <<Range(lo, e)>> \o RunsFrom(levels, e + 1, hi)

\* L2 at one level: every maximal sequence of runs at that level or higher is
\* reversed.
ReverseAt(runs, levels, lvl) ==
    LET high(i) == levels[runs[i].lo] >= lvl
        seqStart(i) == CHOOSE s \in 1..i :
                          /\ \A k \in s..i : high(k)
                          /\ (s = 1 \/ ~high(s - 1))
        seqEnd(i) == CHOOSE e \in i..Len(runs) :
                          /\ \A k \in i..e : high(k)
                          /\ (e = Len(runs) \/ ~high(e + 1))
    IN  [i \in 1..Len(runs) |->
            IF high(i) THEN runs[seqStart(i) + seqEnd(i) - i] ELSE runs[i]]

RECURSIVE ReorderRuns(_, _, _, _)
ReorderRuns(runs, levels, lvl, min_level) ==
    IF lvl < min_level THEN runs
    ELSE ReorderRuns(ReverseAt(runs, levels, lvl), levels, lvl - 1, min_level)

\* BidiInfo::visual_runs(para, line): the line's level runs, left to right on
\* the screen. An empty line gives one empty run.
VisualRuns(text, bidi, para, line) ==
    LET levels == ReorderedLevels(text, bidi, para, line)
        runs == IF line.hi < line.lo THEN <<Range(line.lo, line.hi)>>
                ELSE RunsFrom(levels, line.lo, line.hi)
        used == {levels[runs[i].lo] : i \in 1..Len(runs)}
        max_level == CHOOSE l \in used : \A k \in used : k <= l
        lowest == CHOOSE l \in used : \A k \in used : l <= k
        min_level == IF IsRtl(lowest) THEN lowest ELSE lowest + 1
    IN  [levels |-> levels, runs |-> ReorderRuns(runs, levels, max_level, min_level)]

\* ---------------------------------------------------------------- rustybuzz

\* rustybuzz::shape on one run with the direction set on the buffer: one
\* glyph per character, in the order of the direction (right-to-left output
\* is reversed); horizontal directions give no vertical advance. A
\* default-ignorable character becomes the space glyph with no advance.
ShapeChar(c) ==
    [glyph_id |-> GlyphIndexOrDefault(c),
     x_advance |-> IF c = "m" THEN 0 ELSE Face.hor_advance[GlyphIndexOrDefault(c)],
     y_advance |-> 0,
     x_offset |-> 0,
     y_offset |-> 0]

Shape(run_text, direction) ==
    [i \in 1..Len(run_text) |->
        ShapeChar(run_text[IF direction = "RightToLeft" THEN Len(run_text) + 1 - i ELSE i])]

\* ------------------------------------------------------------ the layout call

VARIABLES
    self,           \* the Text: x, y, text, font_size, font_step, text_align,
                    \* text_limit, line_height
    fontdb,         \* what the font database holds for (font_family, font_weight)
    pc,             \* the position in to_path / to_path_with_font / text_to_raw
    bidi_info,      \* BidiInfo: paragraphs and levels
    para_idx,       \* the paragraph of the loop of line 82
    runs,           \* the visual runs of that paragraph's line, with the levels
    run_idx,        \* the run of the loop of line 88
    glyphs,         \* the shaper's output for that run
    glyph_idx,      \* the glyph of the loop of line 98
    current_x,
    current_y,
    height,
    path_builder,   \* the segments pushed so far
    composed,       \* the path of line 134
    normalized,     \* the path after lines 135-138
    scaled,         \* the path after lines 140-161
    scale,          \* the scale of line 157
    ts,             \* the transform of lines 169-187
    result,         \* Option<Path> of to_path
    raw,            \* Result<String, String> of text_to_raw
    failure,        \* which step gave up: "none", "font", "path", "empty"
    shaped,         \* history: the runs handed to the shaper, with the direction set
    placed,         \* history: the outlines pushed, with the translation applied
    last,           \* history: the last glyph step, with the cursor before it
    run_start       \* history: cursor and segment count when the current run began

vars == <<self, fontdb, pc, bidi_info, para_idx, runs, run_idx, glyphs, glyph_idx,
          current_x, current_y, height, path_builder, composed, normalized, scaled,
          scale, ts, result, raw, failure, shaped, placed, last, run_start>>

bidi_vars == <<bidi_info, para_idx, runs, run_idx, glyphs, glyph_idx>>
cursor_vars == <<current_x, current_y, height, path_builder>>
bounds_vars == <<composed, normalized, scaled, scale, ts>>
history_vars == <<shaped, placed, last, run_start>>

\* The texts of at most n characters over an alphabet.
TextsOver(alphabet, n) == UNION {[1..k -> alphabet] : k \in 0..n}

Aligns == {"R", "L", "M", "C", "CR", "CL"}
FontSizes == {100, 50}
FontSteps == {0, 7}
LineHeights == {None, Some(R(30))}
TextLimits == {None, Some(<<0, 0>>), Some(<<50, 100>>), Some(<<1000, 20>>),
               Some(<<-5, 1000>>), Some(<<100, 40>>)}
Anchors == {<<0, 0>>, <<350, 100>>}

\* Text::new: the fields a caller does not set.
TextNew(text, font_size) ==
    [x |-> 0, y |-> 0, text |-> text, font_size |-> font_size, font_step |-> 0,
     text_align |-> "L", text_limit |-> None, line_height |-> Some(RHalf(R(font_size)))]

\* The layout calls that vary what the composition reads.
ComposeTexts ==
    {[TextNew(t, fs) EXCEPT !.font_step = st, !.line_height = lh] :
        t \in TextsOver(Chars, MaxLen), fs \in FontSizes,
        st \in FontSteps, lh \in LineHeights}

\* The layout calls that vary what the bounds processing reads.
BoundsTexts ==
    {[TextNew(t, 100) EXCEPT !.x = a[1], !.y = a[2], !.text_align = al, !.text_limit = lim] :
        t \in TextsOver(BoundsChars, MaxBoundsLen), a \in Anchors,
        al \in Aligns, lim \in TextLimits}

Init ==
    /\ \/ self \in ComposeTexts /\ fontdb = "ok"
       \/ self \in BoundsTexts /\ fontdb = "ok"
       \/ self \in {TextNew(t, 100) : t \in TextsOver(BoundsChars, MaxBoundsLen)}
          /\ fontdb \in FontStates \ {"ok"}
    /\ pc = "to_path"
    /\ bidi_info = [paragraphs |-> << >>, levels |-> << >>]
    /\ para_idx = 0
    /\ runs = [levels |-> << >>, runs |-> << >>]
    /\ run_idx = 0
    /\ glyphs = << >>
    /\ glyph_idx = 0
    /\ current_x = R(0)
    /\ current_y = R(0)
    /\ height = R(0)
    /\ path_builder = << >>
    /\ composed = << >>
    /\ normalized = << >>
    /\ scaled = << >>
    /\ scale = R(1)
    /\ ts = Identity
    /\ result = None
    /\ raw = [ok |-> FALSE, v |-> ""]
    /\ failure = "none"
    /\ shaped = << >>
    /\ placed = << >>
    /\ last = [kind |-> "none"]
    /\ run_start = [x |-> R(0), y |-> R(0), n |-> 0]

\* Line 66-67.
scale_x == RDiv(R(self.font_size), R(Face.units_per_em))
scale_y == RNeg(scale_x)

\* Lines 70-73.
space_advance_width ==
    RMul(R(Face.hor_advance[GlyphIndexOrDefault("s")]), scale_x)

\* Option<f32>::unwrap_or_default of line_height.
LineHeightOrDefault == IF self.line_height.some THEN self.line_height.v ELSE R(0)

\* A failed step of the call: None travels up through every `?`.
GiveUp(kind) ==
    /\ result' = None
    /\ failure' = kind
    /\ pc' = "to_raw"

\* Text::to_path, lines 192-197: the query finds no face.
ToPathNoFace ==
    /\ pc = "to_path"
    /\ fontdb = "missing"
    /\ GiveUp("font")
    /\ UNCHANGED <<self, fontdb, raw, bidi_vars, cursor_vars, bounds_vars, history_vars>>

\* Text::to_path, lines 197-199: the face data is handed to to_path_with_font.
ToPathWithFace ==
    /\ pc = "to_path"
    /\ fontdb # "missing"
    /\ pc' = "face"
    /\ UNCHANGED <<self, fontdb, result, raw, failure, bidi_vars, cursor_vars,
                   bounds_vars, history_vars>>

\* Line 65: the bytes are no font.
FaceFromSliceFails ==
    /\ pc = "face"
    /\ fontdb = "corrupt"
    /\ GiveUp("font")
    /\ UNCHANGED <<self, fontdb, raw, bidi_vars, cursor_vars, bounds_vars, history_vars>>

\* Lines 65-76, 81: the face, the empty builder and the cursor at the origin.
FaceFromSlice ==
    /\ pc = "face"
    /\ fontdb = "ok"
    /\ path_builder' = << >>
    /\ current_x' = R(0)
    /\ current_y' = R(0)
    /\ height' = R(0)
    /\ pc' = "bidi"
    /\ UNCHANGED <<self, fontdb, result, raw, failure, bidi_vars, bounds_vars, history_vars>>

\* ResolveBidi with the override taken only when every level is LTR.
ResolveBidi_AllLtr(text) ==
    LET auto == BidiInfoNew(text, None)
    IN  IF \A i \in 1..Len(auto.levels) : IsLtr(auto.levels[i])
        THEN BidiInfoNew(text, Some(LTR_LEVEL))
        ELSE auto

\* Lines 77-80: the levels are resolved with the detected base levels, and
\* again with the base level forced to LTR when any level is LTR.
ResolveBidi(text) ==
    LET auto == BidiInfoNew(text, None)
    IN  IF \E i \in 1..Len(auto.levels) : IsLtr(auto.levels[i])
        THEN BidiInfoNew(text, Some(LTR_LEVEL))
        ELSE auto

BidiResolve ==
    /\ pc = "bidi"
    /\ bidi_info' = ResolveBidi(self.text)
    /\ para_idx' = 1
    /\ pc' = "para"
    /\ UNCHANGED <<self, fontdb, result, raw, failure, runs, run_idx, glyphs, glyph_idx,
                   cursor_vars, bounds_vars, history_vars>>

\* Lines 83-86: the paragraph's range without its trailing whitespace.
TrimmedLine(text, range) ==
    LET kept == {i \in range.lo..range.hi : ~IsWhitespace(text[i])}
    IN  Range(range.lo,
              IF kept = {} THEN range.lo - 1
              ELSE CHOOSE i \in kept : \A j \in kept : j <= i)

\* Lines 82-87: the next paragraph's visual runs.
ParaBegin ==
    /\ pc = "para"
    /\ para_idx <= Len(bidi_info.paragraphs)
    /\ LET para == bidi_info.paragraphs[para_idx]
       IN  runs' = VisualRuns(self.text, bidi_info, para, TrimmedLine(self.text, para.range))
    /\ run_idx' = 1
    /\ pc' = "run"
    /\ UNCHANGED <<self, fontdb, result, raw, failure, bidi_info, para_idx, glyphs,
                   glyph_idx, cursor_vars, bounds_vars, history_vars>>

\* Line 82: no paragraph is left.
ParaLoopEnd ==
    /\ pc = "para"
    /\ para_idx > Len(bidi_info.paragraphs)
    /\ pc' = "finish"
    /\ UNCHANGED <<self, fontdb, result, raw, failure, bidi_vars, cursor_vars,
                   bounds_vars, history_vars>>

\* Lines 92-96: the direction set on the shaper's buffer.
ShapeDirection(para) == IF IsRtl(para.level) THEN "RightToLeft" ELSE "LeftToRight"

\* Lines 88-97: the next run is shaped.
RunBegin ==
    /\ pc = "run"
    /\ run_idx <= Len(runs.runs)
    /\ LET para == bidi_info.paragraphs[para_idx]
           rg == runs.runs[run_idx]
           direction == ShapeDirection(para)
       IN  /\ glyphs' = Shape(Slice(self.text, rg), direction)
           /\ shaped' = Append(shaped, [para |-> para_idx, range |-> rg,
                                        level |-> runs.levels[rg.lo],
                                        direction |-> direction])
    /\ glyph_idx' = 1
    /\ run_start' = [x |-> current_x, y |-> current_y, n |-> Len(path_builder)]
    /\ pc' = "glyph"
    /\ UNCHANGED <<self, fontdb, result, raw, failure, bidi_info, para_idx, runs, run_idx,
                   cursor_vars, bounds_vars, placed, last>>

\* ParaEndY without the line height.
ParaEndY_NoLineHeight(cy, h) == RAdd(cy, h)

\* Line 130: the cursor's y after a paragraph.
ParaEndY(cy, h) == RAdd(cy, RAdd(h, LineHeightOrDefault))

\* Lines 129-131: the paragraph's runs are exhausted.
ParaEnd ==
    /\ pc = "run"
    /\ run_idx > Len(runs.runs)
    /\ current_x' = R(0)
    /\ current_y' = ParaEndY(current_y, height)
    /\ height' = R(0)
    /\ para_idx' = para_idx + 1
    /\ pc' = "para"
    /\ UNCHANGED <<self, fontdb, result, raw, failure, bidi_info, runs, run_idx, glyphs,
                   glyph_idx, path_builder, bounds_vars, history_vars>>

\* face.outline_glyph(GlyphId(info.glyph_id), &mut builder)
OutlineGlyph(glyph_id) == Face.outline[glyph_id]

\* Lines 108-115: the transform of a glyph's outline.
GlyphTransform(cx, cy, pos) ==
    PostTranslate(PreScale(Identity, scale_x, scale_y),
                  RAdd(cx, RMul(R(pos.x_offset), scale_x)),
                  RAdd(cy, RMul(R(pos.y_offset), scale_y)))

\* Lines 117-118 and 126: the cursor after a glyph with an outline.
AdvanceOutlined(cx, cy, pos) ==
    <<RAdd(RAdd(cx, RMul(R(pos.x_advance), scale_x)), R(self.font_step)),
      RAdd(cy, RMul(R(pos.y_advance), scale_y))>>

\* AdvanceNoOutline with font_step left to the glyphs that have an outline.
AdvanceNoOutline_NoStep(cx, cy, pos) == <<RAdd(cx, space_advance_width), cy>>

\* AdvanceNoOutline by the glyph's own advance instead of the space's.
AdvanceNoOutline_OwnAdvance(cx, cy, pos) ==
    <<RAdd(RAdd(cx, RMul(R(pos.x_advance), scale_x)), R(self.font_step)),
      RAdd(cy, RMul(R(pos.y_advance), scale_y))>>

\* Lines 124 and 126: the cursor after a glyph without an outline.
AdvanceNoOutline(cx, cy, pos) ==
    <<RAdd(RAdd(cx, space_advance_width), R(self.font_step)), cy>>

\* Lines 121-122.
MaxHeight(h, rect, pos) ==
    RMax(h, RMul(R(RectHeight(rect) + pos.y_advance), scale_x))

\* Lines 103-122, 126: a glyph with an outline is placed.
GlyphOutlined ==
    /\ pc = "glyph"
    /\ glyph_idx <= Len(glyphs)
    /\ LET pos == glyphs[glyph_idx]
           outline == OutlineGlyph(pos.glyph_id)
       IN  /\ outline.some
           /\ PathBuilderFinish(outline.v.segs).some
           /\ LET gts == GlyphTransform(current_x, current_y, pos)
                  path == TransformPath(PathBuilderFinish(outline.v.segs).v, gts)
                  next == AdvanceOutlined(current_x, current_y, pos)
              IN  /\ path_builder' = path_builder \o path
                  /\ current_x' = next[1]
                  /\ current_y' = next[2]
                  /\ height' = MaxHeight(height, outline.v, pos)
                  /\ placed' = Append(placed, [para |-> para_idx, run |-> run_idx,
                                               idx |-> glyph_idx, pos |-> pos,
                                               tx |-> gts.tx, ty |-> gts.ty])
                  /\ last' = [kind |-> "outlined", x |-> current_x, y |-> current_y,
                              pos |-> pos]
    /\ glyph_idx' = glyph_idx + 1
    /\ UNCHANGED <<self, fontdb, pc, result, raw, failure, bidi_info, para_idx, runs,
                   run_idx, glyphs, bounds_vars, shaped, run_start>>

\* Line 107: the glyph's outline cannot be finished into a path.
GlyphOutlineFails ==
    /\ pc = "glyph"
    /\ glyph_idx <= Len(glyphs)
    /\ LET outline == OutlineGlyph(glyphs[glyph_idx].glyph_id)
       IN  outline.some /\ ~PathBuilderFinish(outline.v.segs).some
    /\ GiveUp("path")
    /\ UNCHANGED <<self, fontdb, raw, bidi_vars, cursor_vars, bounds_vars, history_vars>>

\* Lines 123-126: a glyph without an outline.
GlyphNoOutline ==
    /\ pc = "glyph"
    /\ glyph_idx <= Len(glyphs)
    /\ LET pos == glyphs[glyph_idx]
           next == AdvanceNoOutline(current_x, current_y, pos)
       IN  /\ ~OutlineGlyph(pos.glyph_id).some
           /\ current_x' = next[1]
           /\ current_y' = next[2]
           /\ last' = [kind |-> "no_outline", x |-> current_x, y |-> current_y,
                       pos |-> pos]
    /\ glyph_idx' = glyph_idx + 1
    /\ UNCHANGED <<self, fontdb, pc, result, raw, failure, bidi_info, para_idx, runs,
                   run_idx, glyphs, height, path_builder, bounds_vars, shaped, placed,
                   run_start>>

\* Line 98: the run's glyphs are exhausted.
RunEnd ==
    /\ pc = "glyph"
    /\ glyph_idx > Len(glyphs)
    /\ run_idx' = run_idx + 1
    /\ pc' = "run"
    /\ UNCHANGED <<self, fontdb, result, raw, failure, bidi_info, para_idx, runs, glyphs,
                   glyph_idx, cursor_vars, bounds_vars, history_vars>>

\* FinishResult that hands on whatever the builder holds.
FinishResult_NoCheck(segs) == Some(segs)

\* Line 134: the composed path, or nothing.
FinishResult(segs) == PathBuilderFinish(segs)

\* Lines 135-138: the path moved by (-left, -bottom) of its tight bounds.
Normalize(path) ==
    LET rect == ComputeTightBounds(path)
    IN  IF rect.some
        THEN TransformPath(path, PreTranslate(Identity, RNeg(rect.v.left), RNeg(rect.v.bottom)))
        ELSE path

\* Line 134: the builder holds no path.
FinishEmpty ==
    /\ pc = "finish"
    /\ ~FinishResult(path_builder).some
    /\ GiveUp("empty")
    /\ UNCHANGED <<self, fontdb, raw, bidi_vars, cursor_vars, bounds_vars, history_vars>>

\* Lines 134-138: the composed path, normalised.
FinishAndNormalize ==
    /\ pc = "finish"
    /\ FinishResult(path_builder).some
    /\ composed' = FinishResult(path_builder).v
    /\ normalized' = Normalize(FinishResult(path_builder).v)
    /\ pc' = "limit"
    /\ UNCHANGED <<self, fontdb, result, raw, failure, bidi_vars, cursor_vars, scaled,
                   scale, ts, history_vars>>

\* Lines 141-145 and 163-167: the width and the height of path.bounds().
Measure(path) ==
    LET bound == Bounds(path)
    IN  <<RAbs(RSub(bound.right, bound.left)), RAbs(RSub(bound.top, bound.bottom))>>

\* ScaleFactor that also stretches up to the limit.
ScaleFactor_Stretch(limit, w, h) ==
    LET ws == IF RLt(R(0), R(limit[1])) /\ RLt(R(0), w)
              THEN RDiv(R(limit[1]), w) ELSE R(1)
        hs == IF RLt(R(0), R(limit[2])) /\ RLt(R(0), h)
              THEN RDiv(R(limit[2]), h) ELSE R(1)
    IN  RMin(ws, hs)

\* Lines 147-157: the scale of a limit on a measured (w, h).
ScaleFactor(limit, w, h) ==
    LET ws == IF RLt(R(limit[1]), w) /\ RLt(R(0), R(limit[1]))
              THEN RDiv(R(limit[1]), w) ELSE R(1)
        hs == IF RLt(R(limit[2]), h) /\ RLt(R(0), R(limit[2]))
              THEN RDiv(R(limit[2]), h) ELSE R(1)
    IN  RMin(ws, hs)

\* Lines 140-161.
ScaleToFit ==
    /\ pc = "limit"
    /\ LET wh == Measure(normalized)
           sc == IF self.text_limit.some
                 THEN ScaleFactor(self.text_limit.v, wh[1], wh[2]) ELSE R(1)
       IN  /\ scale' = sc
           /\ scaled' = IF sc # R(1)
                        THEN TransformPath(normalized, PreScale(Identity, sc, sc))
                        ELSE normalized
    /\ pc' = "align"
    /\ UNCHANGED <<self, fontdb, result, raw, failure, bidi_vars, cursor_vars, composed,
                   normalized, ts, history_vars>>

\* AlignTranslation with the centred modes moved up instead of down.
AlignTranslation_Up(align, x, y, w, h) ==
    CASE align = "L" -> PostTranslate(Identity, x, y)
      [] align = "R" -> PostTranslate(Identity, RSub(x, w), y)
      [] align = "M" -> PostTranslate(Identity, RSub(x, RHalf(w)), y)
      [] align = "C" -> PostTranslate(Identity, RSub(x, RHalf(w)), RSub(y, RHalf(h)))
      [] align = "CL" -> PostTranslate(Identity, x, RSub(y, RHalf(h)))
      [] align = "CR" -> PostTranslate(Identity, RSub(x, w), RSub(y, RHalf(h)))

\* Lines 169-187: the translation of an alignment.
AlignTranslation(align, x, y, w, h) ==
    CASE align = "L" -> PostTranslate(Identity, x, y)
      [] align = "R" -> PostTranslate(Identity, RSub(x, w), y)
      [] align = "M" -> PostTranslate(Identity, RSub(x, RHalf(w)), y)
      [] align = "C" -> PostTranslate(Identity, RSub(x, RHalf(w)), RAdd(y, RHalf(h)))
      [] align = "CL" -> PostTranslate(Identity, x, RAdd(y, RHalf(h)))
      [] align = "CR" -> PostTranslate(Identity, RSub(x, w), RAdd(y, RHalf(h)))

\* Lines 163-188.
AlignStep ==
    /\ pc = "align"
    /\ LET wh == Measure(scaled)
           t == AlignTranslation(self.text_align, R(self.x), R(self.y), wh[1], wh[2])
       IN  /\ ts' = t
           /\ result' = Some(TransformPath(scaled, t))
    /\ pc' = "to_raw"
    /\ UNCHANGED <<self, fontdb, raw, failure, bidi_vars, cursor_vars, composed,
                   normalized, scaled, scale, history_vars>>

\* The words of one segment: its letter, then x and y of each of its points.
SegmentWords(seg) ==
    <<seg.verb>> \o
    [j \in 1..(2 * Len(seg.pts)) |-> seg.pts[(j + 1) \div 2][2 - (j % 2)]]

\* path_to_raw, lines 203-221: the words of the segments in order, each
\* followed by one space, and the last space popped: the string is modelled as
\* the sequence of its words.
RECURSIVE PathToRaw(_)
PathToRaw(path) ==
    IF path = << >> THEN << >>
    ELSE SegmentWords(Head(path)) \o PathToRaw(Tail(path))

\* TextToRawResult that turns a missing path into an empty string.
TextToRawResult_Swallow(path) ==
    IF path.some THEN [ok |-> TRUE, v |-> PathToRaw(path.v)]
    ELSE [ok |-> TRUE, v |-> << >>]

\* text_to_raw, lines 223-230.
TextToRawResult(path) ==
    IF path.some THEN [ok |-> TRUE, v |-> PathToRaw(path.v)]
    ELSE [ok |-> FALSE, v |-> "text to path error check font"]

TextToRaw ==
    /\ pc = "to_raw"
    /\ raw' = TextToRawResult(result)
    /\ pc' = "done"
    /\ UNCHANGED <<self, fontdb, result, failure, bidi_vars, cursor_vars, bounds_vars,
                   history_vars>>

Next ==
    \/ ToPathNoFace
    \/ ToPathWithFace
    \/ FaceFromSliceFails
    \/ FaceFromSlice
    \/ BidiResolve
    \/ ParaBegin
    \/ ParaLoopEnd
    \/ RunBegin
    \/ ParaEnd
    \/ GlyphOutlined
    \/ GlyphOutlineFails
    \/ GlyphNoOutline
    \/ RunEnd
    \/ FinishEmpty
    \/ FinishAndNormalize
    \/ ScaleToFit
    \/ AlignStep
    \/ TextToRaw

Spec == Init /\ [][Next]_vars

\* ------------------------------------------------------------------ claims

\* The call got past the step at pc = "limit" (the path is normalised).
Normalized == pc \in {"limit", "align"} \/ (pc \in {"to_raw", "done"} /\ result.some)
\* The call got past the scale-to-fit.
Scaled == pc = "align" \/ (pc \in {"to_raw", "done"} /\ result.some)
\* The call got past the alignment.
Aligned == pc \in {"to_raw", "done"} /\ result.some

\* C1: the final path is the scaled path moved by one translation, which
\* text_align selects from the anchor (x, y) and the measured (w, h):
\* L -> (x, y), R -> (x - w, y), M -> (x - w/2, y), C -> (x - w/2, y + h/2),
\* CL -> (x, y + h/2), CR -> (x - w, y + h/2); with w = 100, h = 40 and the
\* anchor (350, 100) these are (350,100), (250,100), (300,100), (300,120),
\* (350,120), (250,120).
C1_AlignmentTranslation ==
    Aligned =>
        LET w == Measure(scaled)[1]
            h == Measure(scaled)[2]
            x == R(self.x)
            y == R(self.y)
            al == self.text_align
            dx == CASE al \in {"L", "CL"} -> x
                    [] al \in {"R", "CR"} -> RSub(x, w)
                    [] al \in {"M", "C"} -> RSub(x, RDiv(w, R(2)))
            dy == CASE al \in {"L", "R", "M"} -> y
                    [] al \in {"C", "CL", "CR"} -> RAdd(y, RDiv(h, R(2)))
        IN  /\ ts = [sx |-> R(1), sy |-> R(1), tx |-> dx, ty |-> dy]
            /\ Len(result.v) = Len(scaled)
            /\ \A i \in 1..Len(scaled) :
                  /\ result.v[i].verb = scaled[i].verb
                  /\ Len(result.v[i].pts) = Len(scaled[i].pts)
                  /\ \A j \in 1..Len(scaled[i].pts) :
                        result.v[i].pts[j] =
                            <<RAdd(scaled[i].pts[j][1], dx), RAdd(scaled[i].pts[j][2], dy)>>
            /\ (w = R(100) /\ h = R(40) /\ self.x = 350 /\ self.y = 100) =>
                  <<ts.tx[1], ts.ty[1], ts.tx[2], ts.ty[2]>> =
                      CASE al = "L" -> <<350, 100, 1, 1>>
                        [] al = "R" -> <<250, 100, 1, 1>>
                        [] al = "M" -> <<300, 100, 1, 1>>
                        [] al = "C" -> <<300, 120, 1, 1>>
                        [] al = "CL" -> <<350, 120, 1, 1>>
                        [] al = "CR" -> <<250, 120, 1, 1>>

\* C1 witness: a centred call that measured (100, 40) at the anchor (350, 100).
C1_Witness ==
    /\ pc = "done"
    /\ result.some
    /\ self.text_align = "C"
    /\ self.x = 350 /\ self.y = 100
    /\ Measure(scaled) = <<R(100), R(40)>>
    /\ ts.tx = R(300) /\ ts.ty = R(120)

\* C2: the scale-to-fit never enlarges: width_scale is limit_w / w only when
\* 0 < limit_w < w, height_scale is limit_h / h only when 0 < limit_h < h,
\* both 1 otherwise; the scale is their minimum and lies in (0, 1]; the path is
\* scaled by it about the origin, and is left as it was when the limit is
\* absent or both limits are at least the measured (w, h).
C2_NeverEnlarges ==
    Scaled =>
        LET w == Measure(normalized)[1]
            h == Measure(normalized)[2]
            lim == self.text_limit
            width_scale == IF lim.some /\ 0 < lim.v[1] /\ RLt(R(lim.v[1]), w)
                           THEN RDiv(R(lim.v[1]), w) ELSE R(1)
            height_scale == IF lim.some /\ 0 < lim.v[2] /\ RLt(R(lim.v[2]), h)
                            THEN RDiv(R(lim.v[2]), h) ELSE R(1)
        IN  /\ scale = (IF RLe(width_scale, height_scale) THEN width_scale ELSE height_scale)
            /\ RLt(R(0), scale) /\ RLe(scale, R(1))
            /\ Len(scaled) = Len(normalized)
            /\ \A i \in 1..Len(normalized) : \A j \in 1..Len(normalized[i].pts) :
                  scaled[i].pts[j] = <<RMul(normalized[i].pts[j][1], scale),
                                       RMul(normalized[i].pts[j][2], scale)>>
            /\ RLe(Measure(scaled)[1], w) /\ RLe(Measure(scaled)[2], h)
            /\ (~lim.some \/ (RLe(w, R(lim.v[1])) /\ RLe(h, R(lim.v[2])))) =>
                  scale = R(1) /\ scaled = normalized

\* C2 witness: a limit narrower than the text halves it.
C2_Witness ==
    /\ pc = "done"
    /\ result.some
    /\ self.text_limit = Some(<<50, 100>>)
    /\ Measure(normalized) = <<R(100), R(40)>>
    /\ scale = <<1, 2>>
    /\ Measure(scaled) = <<R(50), R(20)>>

\* The characters of a text whose glyph has an outline.
HasOutline(c) == OutlineGlyph(GlyphIndexOrDefault(c)).some

\* C3: a call whose composed path has no segment fails: the empty text and
\* any text whose glyphs all lack an outline give no path from to_path and an
\* error from text_to_raw, and no successful call returns an empty path.
C3_EmptyPathFails ==
    pc = "done" =>
        /\ (\A i \in 1..Len(self.text) : ~HasOutline(self.text[i])) =>
              /\ path_builder = << >>
              /\ ~result.some
              /\ ~raw.ok
        /\ result.some => Len(result.v) > 0
        /\ raw.ok => result.some /\ Len(raw.v) > 0

\* C3 witness: a text of spaces only ended in the empty-path failure.
C3_Witness ==
    /\ pc = "done"
    /\ Len(self.text) > 0
    /\ \A i \in 1..Len(self.text) : self.text[i] = "s"
    /\ failure = "empty"
    /\ ~result.some /\ ~raw.ok

\* C4: every run is shaped with the direction of the run's own level: a run
\* at an RTL level RightToLeft, a run at an LTR level LeftToRight.
C4_RunDirection ==
    \A i \in 1..Len(shaped) :
        shaped[i].direction =
            (IF IsRtl(shaped[i].level) THEN "RightToLeft" ELSE "LeftToRight")

\* The run whose glyphs have all been processed, when it holds spaces only.
SpaceRunDone ==
    /\ pc = "glyph"
    /\ glyph_idx > Len(glyphs)
    /\ \A i \in runs.runs[run_idx].lo..runs.runs[run_idx].hi : self.text[i] = "s"
SpaceRunLen == runs.runs[run_idx].hi - runs.runs[run_idx].lo + 1

GlyphDone == pc = "glyph" /\ glyph_idx > 1 /\ last.kind # "none"

\* C6 as stated: every glyph, with or without an outline, moves the cursor by
\* its own scaled advance, and font_step is added to current_x once.
C6_OwnAdvance ==
    GlyphDone =>
        /\ current_x = RAdd(RAdd(last.x, RMul(R(last.pos.x_advance), scale_x)),
                            R(self.font_step))
        /\ current_y = RAdd(last.y, RMul(R(last.pos.y_advance), scale_y))

\* Two outlines pushed one after the other from one run.
Consecutive(i) ==
    /\ placed[i].para = placed[i + 1].para
    /\ placed[i].run = placed[i + 1].run
    /\ placed[i].idx + 1 = placed[i + 1].idx

\* C6 amended: a glyph with an outline moves the cursor by its own scaled
\* advance, a glyph without one moves current_x by space_advance_width in
\* place of its own advance and leaves current_y alone; font_step is added to
\* current_x once in both cases. Of two outlines pushed one after the other
\* the second is inserted at the first's insertion point plus the first's
\* scaled advance plus font_step.
C6_AdvancePerGlyph ==
    /\ GlyphDone =>
          IF last.kind = "outlined"
          THEN /\ current_x = RAdd(RAdd(last.x, RMul(R(last.pos.x_advance), scale_x)),
                                   R(self.font_step))
               /\ current_y = RAdd(last.y, RMul(R(last.pos.y_advance), scale_y))
          ELSE /\ current_x = RAdd(RAdd(last.x, space_advance_width), R(self.font_step))
               /\ current_y = last.y
    /\ \A i \in 1..(Len(placed) - 1) :
          Consecutive(i) =>
              RSub(placed[i + 1].tx, RMul(R(placed[i + 1].pos.x_offset), scale_x)) =
                  RAdd(RAdd(RSub(placed[i].tx, RMul(R(placed[i].pos.x_offset), scale_x)),
                            RMul(R(placed[i].pos.x_advance), scale_x)),
                       R(self.font_step))

\* C6 witness: after two outlines of one run, a glyph without an outline whose
\* own advance is not the space's was processed.
C6_Witness ==
    /\ GlyphDone
    /\ last.kind = "no_outline"
    /\ RMul(R(last.pos.x_advance), scale_x) # space_advance_width
    /\ Len(placed) >= 2
    /\ Consecutive(1)
    /\ self.font_step # 0

\* The bidi resolution is done.
BidiDone == para_idx >= 1

\* C7: when the detected levels hold an LTR level anywhere in the text, every
\* paragraph's base level is LTR; when they hold none, every paragraph keeps
\* its detected base level.
C7_BaseLevelOverride ==
    BidiDone =>
        LET auto == BidiInfoNew(self.text, None)
            any_ltr == \E i \in 1..Len(self.text) : auto.levels[i] % 2 = 0
        IN  /\ Len(bidi_info.paragraphs) = Len(auto.paragraphs)
            /\ \A k \in 1..Len(auto.paragraphs) :
                  /\ bidi_info.paragraphs[k].range = auto.paragraphs[k].range
                  /\ bidi_info.paragraphs[k].level =
                        (IF any_ltr THEN 0 ELSE auto.paragraphs[k].level)

\* C7 witness: a paragraph detected as RTL is laid out with an LTR base level
\* because another paragraph holds a left-to-right character.
C7_Witness ==
    /\ BidiDone
    /\ \E k \in 1..Len(bidi_info.paragraphs) :
          /\ AutoParaLevel(self.text, bidi_info.paragraphs[k].range) = 1
          /\ bidi_info.paragraphs[k].level = 0
          /\ \A i \in bidi_info.paragraphs[k].range.lo..bidi_info.paragraphs[k].range.hi :
                self.text[i] # "a"

\* C8: the bounding box that the scale-to-fit and the alignment measure has
\* left = 0 and bottom = 0 after the normalisation.
C8_MeasuredBoxAtOrigin ==
    Normalized =>
        /\ Bounds(normalized).left = R(0)
        /\ Bounds(normalized).bottom = R(0)

\* The value text_to_raw returns for a font that is not found or not parsed.
FontErrorValue == [ok |-> FALSE, v |-> "text to path error check font"]

ParaMaxLineHeight(k) ==
    LET line == TrimmedLine(self.text, bidi_info.paragraphs[k].range)
        hs == {RMul(R(RectHeight(OutlineGlyph(GlyphIndexOrDefault(self.text[i])).v)),
                    RDiv(R(self.font_size), R(Face.units_per_em))) :
                 i \in {j \in line.lo..line.hi : HasOutline(self.text[j])}}
    IN  RMaxOf(hs \cup {R(0)})

RECURSIVE StackedHeight(_)
StackedHeight(n) ==
    IF n = 0 THEN R(0)
    ELSE RAdd(StackedHeight(n - 1),
              RAdd(ParaMaxLineHeight(n),
                   IF self.line_height.some THEN self.line_height.v ELSE R(0)))

\* C10: at the start of the n-th paragraph current_x = 0, max_line_height = 0
\* and current_y is the sum over the n - 1 paragraphs before it of
\* (max_line_height_i + line_height), line_height being 0 when unset.
C10_ParagraphStacking ==
    pc = "para" =>
        /\ current_x = R(0)
        /\ height = R(0)
        /\ current_y = StackedHeight(para_idx - 1)

\* C10 witness: the third paragraph starts below two lines of different
\* heights with a line height set.
C10_Witness ==
    /\ pc = "para"
    /\ para_idx = 3
    /\ self.line_height.some
    /\ ParaMaxLineHeight(1) # ParaMaxLineHeight(2)
    /\ ParaMaxLineHeight(2) # R(0)
    /\ current_y = RAdd(RAdd(ParaMaxLineHeight(1), ParaMaxLineHeight(2)),
                        RMul(R(2), self.line_height.v))

====
